---- MODULE Spec2Model ----
(***************************************************************************)
(* dice-pool-calc: the outcome-distribution algebra.                       *)
(*                                                                         *)
(* The repository holds four generations of the same abstraction:         *)
(*   "index"  src/src/index.ts        Die over an Immutable.js Map         *)
(*   "dice"   src/src/dice.ts         Die over a native JS Map             *)
(*   "part"   src/unnamed/part_000, part_001                               *)
(*                                    the same class grown pool, interpret *)
(*                                    and reroll                           *)
(*   "main"   src/src/main.ts         Die as an array of RollResult        *)
(* The variable impl says which generation a behaviour exercises; dice of  *)
(* one generation are never handed to another.                             *)
(*                                                                         *)
(* Weights are JS numbers; they are modelled as exact rationals <<n, d>>   *)
(* in lowest terms (d = 0 encodes NaN <<0,0>> and Infinity <<1,0>>).       *)
(* Outcome values are numbers, mutable JS arrays (compared by reference    *)
(* by both Map flavours, by content by fast-deep-equal) or Immutable.js    *)
(* Lists (ValueObjects, compared by content by Immutable.is).  Composite   *)
(* values live in heap, a sequence indexed by address.                     *)
(***************************************************************************)
EXTENDS Integers, Sequences, FiniteSets, TLC

VARIABLES impl, heap, dies, maps, mutations, normalizations, last

vars == <<impl, heap, dies, maps, mutations, normalizations, last>>

(***************************************************************************)
(* Bounds                                                                  *)
(***************************************************************************)
MaxSides == 3
MaxDies == 3
MaxPool == 2
MaxMutations == 2
MaxNormalize == 1
MaxTerm == 1024

(***************************************************************************)
(* JS numbers as exact rationals                                           *)
(***************************************************************************)
Abs(x) == IF x < 0 THEN -x ELSE x

RECURSIVE Gcd(_, _)
Gcd(a, b) == IF b = 0 THEN a ELSE Gcd(b, a % b)

Sign(x) == IF x > 0 THEN 1 ELSE IF x < 0 THEN -1 ELSE 0

Norm(n, d) ==
  IF d = 0 THEN <<Sign(n), 0>>
  ELSE LET g == Gcd(Abs(n), Abs(d))
           s == IF d < 0 THEN -1 ELSE 1
       IN <<(s * n) \div g, (s * d) \div g>>

Rat(n) == <<n, 1>>
NaN == <<0, 0>>
IsFinite(a) == a[2] # 0

RAdd(a, b) ==
  IF a[2] = 0 \/ b[2] = 0
  THEN IF a = NaN \/ b = NaN THEN NaN
       ELSE IF a[2] = 0 /\ b[2] = 0 /\ a[1] # b[1] THEN NaN
       ELSE IF a[2] = 0 THEN a ELSE b
  ELSE LET g == Gcd(a[2], b[2])
       IN Norm(a[1] * (b[2] \div g) + b[1] * (a[2] \div g), (a[2] \div g) * b[2])

RMul(a, b) ==
  IF a[2] = 0 \/ b[2] = 0
  THEN IF a = NaN \/ b = NaN \/ a[1] = 0 \/ b[1] = 0 THEN NaN
       ELSE <<Sign(a[1]) * Sign(b[1]), 0>>
  ELSE LET g1 == Gcd(Abs(a[1]), b[2])
           g2 == Gcd(Abs(b[1]), a[2])
       IN Norm((a[1] \div g1) * (b[1] \div g2), (a[2] \div g2) * (b[2] \div g1))

RDiv(a, b) ==
  IF a[2] = 0 \/ b[2] = 0
  THEN IF a = NaN \/ b = NaN \/ (a[2] = 0 /\ b[2] = 0) THEN NaN
       ELSE IF b[2] = 0 THEN Rat(0) ELSE <<Sign(a[1]) * Sign(b[1]), 0>>
  ELSE IF b[1] = 0 THEN <<Sign(a[1]), 0>>
  ELSE RMul(a, <<Sign(b[1]) * b[2], Abs(b[1])>>)

(***************************************************************************)
(* Outcome values                                                          *)
(***************************************************************************)
Num(n) == [kind |-> "num", v |-> n]
Ref(kind, addr) == [kind |-> kind, v |-> addr]

Content(val, h) == IF val.kind = "num" THEN <<val.v>> ELSE h[val.v]

\* allocation of a composite value: the new heap and the reference to it
Alloc(kind, content, h) ==
  [heap |-> Append(h, content), val |-> Ref(kind, Len(h) + 1)]

\* key equality of a native JS Map (SameValueZero): numbers by value,
\* objects by reference
SameValueZero(a, b) == a = b

\* key equality of an Immutable.js Map (Immutable.is): numbers by value,
\* ValueObjects by equals(), any other object by reference
Is(a, b, h) ==
  IF a.kind = "list" /\ b.kind = "list" THEN h[a.v] = h[b.v] ELSE a = b

\* fast-deep-equal
deepEqual(a, b, h) ==
  /\ a.kind = b.kind
  /\ Content(a, h) = Content(b, h)

\* deepcopy: a number is returned as is, an array is cloned
deepCopy(val, h) ==
  IF val.kind = "num" THEN [heap |-> h, val |-> val]
  ELSE Alloc(val.kind, h[val.v], h)

(***************************************************************************)
(* Entry sequences: a die's records in iteration order                     *)
(***************************************************************************)
Entry(k, w) == [key |-> k, w |-> w]

\* evaluation order only: v is evaluated before e.  The loops below apply
\* their body to positions lo..hi in order and halve the range only to keep
\* the evaluation shallow.
Strict(v, e) == IF v = v THEN e ELSE e

RECURSIVE SumFrom(_, _, _)
SumFrom(es, lo, hi) ==
  IF lo > hi THEN Rat(0)
  ELSE IF lo = hi THEN es[lo].w
  ELSE LET mid == (lo + hi) \div 2
       IN RAdd(SumFrom(es, lo, mid), SumFrom(es, mid + 1, hi))

Total(es) == SumFrom(es, 1, Len(es))

\* index of the first record whose key satisfies Eq, 0 if none; Eq is given
\* as the sequence of its truth values over the records
FirstIdx(eq) ==
  IF \E i \in 1..Len(eq) : eq[i]
  THEN CHOOSE i \in 1..Len(eq) : eq[i] /\ \A j \in 1..(i - 1) : ~eq[j]
  ELSE 0

Put(es, i, k, w) ==
  IF i = 0 THEN Append(es, Entry(k, w)) ELSE [es EXCEPT ![i].w = w]

(***************************************************************************)
(* User callbacks.  Each is given by its mathematical function on contents *)
(* (kind and content of the value it returns) and by the way it returns    *)
(* it: a number, a freshly built composite, or its first argument mutated  *)
(* in place.                                                               *)
(***************************************************************************)
SuccessAt == 2
KeepDice == 2

Abstract(val, h) == <<val.kind, Content(val, h)>>

RECURSIVE InsertSorted(_, _)
InsertSorted(s, x) ==
  IF s = <<>> THEN <<x>>
  ELSE IF x < Head(s) THEN <<x>> \o s
  ELSE <<Head(s)>> \o InsertSorted(Tail(s), x)

\* accumulator.push(dieValue); accumulator.sort(); accumulator.splice(...)
KeepHighest(s, x) ==
  LET t == InsertSorted(s, x)
  IN IF Len(t) > KeepDice THEN SubSeq(t, Len(t) - KeepDice + 1, Len(t)) ELSE t

AccumulatorCallbacks == {"sumDice", "countSuccess", "saveHighest", "keepSorted"}

\* the kind of accumulator a callback works on
AccKind(cb) ==
  CASE cb = "saveHighest" -> "arr"
    [] cb = "keepSorted" -> "list"
    [] OTHER -> "num"

InPlace(cb) == cb = "saveHighest"

\* countSuccesses.ts as written: 12d6, a success is 5 or higher
ExampleDice == 12
ExampleSides == 6
ExampleThreshold == 5

AccPure(cb, acc, o) ==
  CASE cb = "sumDice" -> <<acc[1] + o>>
    [] cb = "countSuccess" -> <<IF o >= SuccessAt THEN acc[1] + 1 ELSE acc[1]>>
    [] cb = "countSuccessExample" -> <<IF o >= ExampleThreshold THEN acc[1] + 1 ELSE acc[1]>>
    [] OTHER -> KeepHighest(acc, o)

\* one invocation accumulatorCallback(acc, o) on the heap h
ApplyAcc(cb, acc, o, h) ==
  LET c == AccPure(cb, Content(acc, h), o.v)
  IN IF AccKind(cb) = "num" THEN [heap |-> h, val |-> Num(c[1])]
     ELSE IF InPlace(cb) THEN [heap |-> [h EXCEPT ![acc.v] = c], val |-> acc]
     ELSE Alloc(AccKind(cb), c, h)

\* the initial accumulator the caller builds: 0, [] or List()
InitialFor(cb, h) ==
  IF AccKind(cb) = "num" THEN [heap |-> h, val |-> Num(0)]
  ELSE Alloc(AccKind(cb), <<>>, h)

CombineCallbacks == {"sum", "combineOpposed", "tuple"}

\* composite results are Immutable Lists for index.ts, arrays otherwise
CompositeKind(im) == IF im = "index" THEN "list" ELSE "arr"

CombinePure(cb, a, b) ==
  CASE cb = "sum" -> <<a + b>>
    [] cb = "combineOpposed" -> <<IF a > b THEN 1 ELSE 0>>
    [] OTHER -> <<a, b>>

ApplyCombine(im, cb, a, b, h) ==
  LET c == CombinePure(cb, a.v, b.v)
  IN IF cb = "tuple" THEN Alloc(CompositeKind(im), c, h)
     ELSE [heap |-> h, val |-> Num(c[1])]

AllNum(es) == \A i \in 1..Len(es) : es[i].key.kind = "num"

(***************************************************************************)
(* Primitive construction                                                  *)
(***************************************************************************)
\* Die.d(numSides) / d(dieSize): outcomes 1..numSides, each 1 / numSides
d(numSides) == [id \in 1..numSides |-> Entry(Num(id), RDiv(Rat(1), Rat(numSides)))]

(***************************************************************************)
(* The record of the last call                                             *)
(***************************************************************************)
NoCall ==
  [op |-> "none", cb |-> "", args |-> <<>>, initial |-> Num(0), ret |-> 0,
   retType |-> "none", out |-> <<>>, threw |-> FALSE, calls |-> 0, accArgs |-> <<>>, running |-> <<>>,
   keysStable |-> TRUE, preDies |-> <<>>, preHeap |-> <<>>,
   weight |-> <<0, -1>>, val |-> <<0, -1>>, numSides |-> 1, numDice |-> 1]

(***************************************************************************)
(* pair                                                                    *)
(***************************************************************************)
ImmAccumulateOverwrite(es, k, p, h) ==
  Put(es, FirstIdx([n \in 1..Len(es) |-> Is(es[n].key, k, h)]), k, p)

\* Immutable Map get/set as used by newOutcomes.set(o, (newOutcomes.get(o) ?? 0) + p)
ImmAccumulate(es, k, p, h) ==
  LET i == FirstIdx([n \in 1..Len(es) |-> Is(es[n].key, k, h)])
  IN Put(es, i, k, RAdd(IF i = 0 THEN Rat(0) ELSE es[i].w, p))

\* main.ts injectRollRecord: find by deepEqual, else push a zero record; add
injectRollRecord(es, k, p, h) ==
  LET i == FirstIdx([n \in 1..Len(es) |-> deepEqual(es[n].key, k, h)])
  IN Put(es, i, k, RAdd(IF i = 0 THEN Rat(0) ELSE es[i].w, p))

\* the body of the nested loops of pair for the n-th combination, counting
\* from 0: dieA's outcome n \div |dieB| + 1 with dieB's outcome n % |dieB| + 1
PairBody(im, cb, A, B, n, st) ==
  LET a == A[(n \div Len(B)) + 1]
      b == B[(n % Len(B)) + 1]
      r == ApplyCombine(im, cb, a.key, b.key, st.heap)
      p == RMul(a.w, b.w)
  IN [heap |-> r.heap,
      out |-> IF im = "index" THEN ImmAccumulate(st.out, r.val, p, r.heap)
              ELSE injectRollRecord(st.out, r.val, p, r.heap),
      calls |-> st.calls + 1]

RECURSIVE PairLoop(_, _, _, _, _, _, _)
PairLoop(im, cb, A, B, lo, hi, st) ==
  IF lo > hi THEN st
  ELSE IF lo = hi THEN PairBody(im, cb, A, B, lo, st)
  ELSE LET mid == (lo + hi) \div 2
           left == PairLoop(im, cb, A, B, lo, mid, st)
       IN Strict(left, PairLoop(im, cb, A, B, mid + 1, hi, left))

pair(im, cb, A, B, h) ==
  PairLoop(im, cb, A, B, 0, Len(A) * Len(B) - 1, [heap |-> h, out |-> <<>>, calls |-> 0])

(***************************************************************************)
(* pool                                                                    *)
(***************************************************************************)
\* dice.ts / part_000 accumulate: a native Map get and set on the same key
accumulate(es, k, p) ==
  LET i == FirstIdx([n \in 1..Len(es) |-> SameValueZero(es[n].key, k)])
  IN Put(es, i, k, RAdd(IF i = 0 THEN Rat(0) ELSE es[i].w, p))

\* index.ts: the lazy flatMap/map/forEach chain; the n-th combination (from
\* 0, the die's outcomes outermost) is computed from the running map's own
\* key and recorded at once
IndexPoolBody(cb, accumulated, die, n, st) ==
  LET dieEntry == die[(n \div Len(accumulated)) + 1]
      accumulatedentry == accumulated[(n % Len(accumulated)) + 1]
      r == ApplyAcc(cb, accumulatedentry.key, dieEntry.key, st.heap)
      p == RMul(accumulatedentry.w, dieEntry.w)
  IN [st EXCEPT !.heap = r.heap,
                !.out = ImmAccumulate(st.out, r.val, p, r.heap),
                !.calls = st.calls + 1,
                !.accArgs = Append(st.accArgs, accumulatedentry.key)]

RECURSIVE IndexPoolStep(_, _, _, _, _, _)
IndexPoolStep(cb, accumulated, die, lo, hi, st) ==
  IF lo > hi THEN st
  ELSE IF lo = hi THEN IndexPoolBody(cb, accumulated, die, lo, st)
  ELSE LET mid == (lo + hi) \div 2
           left == IndexPoolStep(cb, accumulated, die, lo, mid, st)
       IN Strict(left, IndexPoolStep(cb, accumulated, die, mid + 1, hi, left))

\* part_000 / main.ts: the eager flatMap/map; the n-th combination is
\* computed from deepCopy of the running key and kept in pending
CopyPoolBody(cb, accumulated, die, n, st) ==
  LET dieEntry == die[(n \div Len(accumulated)) + 1]
      accumulatedEntry == accumulated[(n % Len(accumulated)) + 1]
      c == deepCopy(accumulatedEntry.key, st.heap)
      r == ApplyAcc(cb, c.val, dieEntry.key, c.heap)
      p == RMul(accumulatedEntry.w, dieEntry.w)
  IN [st EXCEPT !.heap = r.heap,
                !.pending = Append(st.pending, Entry(r.val, p)),
                !.calls = st.calls + 1,
                !.accArgs = Append(st.accArgs, c.val)]

RECURSIVE CopyPoolCombine(_, _, _, _, _, _)
CopyPoolCombine(cb, accumulated, die, lo, hi, st) ==
  IF lo > hi THEN st
  ELSE IF lo = hi THEN CopyPoolBody(cb, accumulated, die, lo, st)
  ELSE LET mid == (lo + hi) \div 2
           left == CopyPoolCombine(cb, accumulated, die, lo, mid, st)
       IN Strict(left, CopyPoolCombine(cb, accumulated, die, mid + 1, hi, left))

\* ... followed by forEach(accumulate) or forEach(injectRollRecord)
RECURSIVE CopyPoolRecord(_, _, _, _, _, _)
CopyPoolRecord(im, pending, lo, hi, out, h) ==
  IF lo > hi THEN out
  ELSE IF lo = hi
       THEN IF im = "part" THEN accumulate(out, pending[lo].key, pending[lo].w)
            ELSE injectRollRecord(out, pending[lo].key, pending[lo].w, h)
  ELSE LET mid == (lo + hi) \div 2
           left == CopyPoolRecord(im, pending, lo, mid, out, h)
       IN Strict(left, CopyPoolRecord(im, pending, mid + 1, hi, left, h))

AbstractKeys(es, h) == [i \in 1..Len(es) |-> Abstract(es[i].key, h)]

\* one step of the reduce: the running distribution combined with the next die
PoolStep(im, cb, accumulated, die, st) ==
  LET s0 == [heap |-> st.heap, out |-> <<>>, pending |-> <<>>,
             calls |-> st.calls, accArgs |-> st.accArgs]
      last_n == Len(die) * Len(accumulated) - 1
      s1 == IF im = "index" THEN IndexPoolStep(cb, accumulated, die, 0, last_n, s0)
            ELSE CopyPoolCombine(cb, accumulated, die, 0, last_n, s0)
      out == IF im = "index" THEN s1.out
             ELSE CopyPoolRecord(im, s1.pending, 1, Len(s1.pending), <<>>, s1.heap)
  IN [heap |-> s1.heap, acc |-> out, calls |-> s1.calls, accArgs |-> s1.accArgs,
      running |-> Append(st.running, AbstractKeys(out, s1.heap)),
      keysStable |-> st.keysStable /\
                     AbstractKeys(accumulated, s1.heap) = AbstractKeys(accumulated, st.heap)]

RECURSIVE PoolFold(_, _, _, _, _)
PoolFold(im, cb, dice, i, st) ==
  IF i > Len(dice) THEN st
  ELSE PoolFold(im, cb, dice, i + 1, PoolStep(im, cb, st.acc, dice[i], st))

poolUnseeded(im, cb, initial, dice, h) ==
  PoolFold(im, cb, dice, 1,
    [heap |-> h, acc |-> <<>>, calls |-> 0, accArgs |-> <<>>,
     running |-> <<<<>>>>, keysStable |-> TRUE])

\* pool(accumulatorCallback, initial, dice)
pool(im, cb, initial, dice, h) ==
  PoolFold(im, cb, dice, 1,
    [heap |-> h, acc |-> <<Entry(initial, Rat(1))>>, calls |-> 0, accArgs |-> <<>>,
     running |-> <<AbstractKeys(<<Entry(initial, Rat(1))>>, h)>>, keysStable |-> TRUE])

(***************************************************************************)
(* interpret and reroll                                                    *)
(***************************************************************************)
InterpretCallbacks == {"identity", "parity", "box"}

\* the content of the initial accumulator InitialFor builds
InitialContent(cb) == IF AccKind(cb) = "num" THEN <<0>> ELSE <<>>

\* besides the three mappings above, outcome => accumulate(initial, outcome)
\* for an accumulator callback that builds its result anew
InterpretPure(f, o) ==
  CASE f = "identity" -> <<o>>
    [] f \in {"parity", "box"} -> <<o % 2>>
    [] OTHER -> AccPure(f, InitialContent(f), o)

InterpretKind(im, f) ==
  CASE f = "box" -> CompositeKind(im)
    [] f \in AccumulatorCallbacks -> AccKind(f)
    [] OTHER -> "num"

ApplyInterpret(im, f, o, h) ==
  LET c == InterpretPure(f, o.v)
  IN IF InterpretKind(im, f) = "num" THEN [heap |-> h, val |-> Num(c[1])]
     ELSE Alloc(InterpretKind(im, f), c, h)

\* native Map.prototype.set, also what new Map(pairs) does with each pair
MapSet(es, k, w) == Put(es, FirstIdx([n \in 1..Len(es) |-> SameValueZero(es[n].key, k)]), k, w)

\* index.ts: accumulated.set(f(o), (accumulated.get(f(o)) ?? 0) + probability)
\* part_001: new Map(entries.map(([o, p]) => [f(o), p]))
\* main.ts:  map to RollResult, then reduce with find-by-deepEqual
InterpretBody(im, f, es, i, st) ==
  LET r == ApplyInterpret(im, f, es[i].key, st.heap)
  IN [heap |-> r.heap,
      out |-> CASE im = "index" -> ImmAccumulate(st.out, r.val, es[i].w, r.heap)
                [] im = "part" -> MapSet(st.out, r.val, es[i].w)
                [] OTHER -> injectRollRecord(st.out, r.val, es[i].w, r.heap),
      calls |-> st.calls + 1]

RECURSIVE InterpretLoop(_, _, _, _, _, _)
InterpretLoop(im, f, es, lo, hi, st) ==
  IF lo > hi THEN st
  ELSE IF lo = hi THEN InterpretBody(im, f, es, lo, st)
  ELSE LET mid == (lo + hi) \div 2
           left == InterpretLoop(im, f, es, lo, mid, st)
       IN Strict(left, InterpretLoop(im, f, es, mid + 1, hi, left))

interpret(im, f, es, h) ==
  InterpretLoop(im, f, es, 1, Len(es), [heap |-> h, out |-> <<>>, calls |-> 0])

RerollCallbacks == {"rerollOnes", "coinFlip", "loaded"}

\* the die a reroll callback returns for an outcome
RerollDie(f, o) ==
  CASE f = "rerollOnes" -> IF o = 1 THEN d(2) ELSE <<Entry(Num(o), Rat(1))>>
    [] f = "coinFlip" -> <<Entry(Num(0), Norm(1, 2)), Entry(Num(1), Norm(1, 2))>>
    [] OTHER -> <<Entry(Num(0), Rat(1)), Entry(Num(o), Rat(1))>>

\* the new outcomes in the order the nested iteration meets them, each with
\* newProbability * oldProbability
RECURSIVE RerollPairs(_, _, _)
RerollPairs(f, es, i) ==
  IF i > Len(es) THEN <<>>
  ELSE LET sub == RerollDie(f, es[i].key.v)
       IN [j \in 1..Len(sub) |-> Entry(sub[j].key, RMul(sub[j].w, es[i].w))]
            \o RerollPairs(f, es, i + 1)

\* index.ts: accumulated.set(o, (accumulated.get(o) ?? 0) + p) for each;
\* part_001: new Map(pairs)
RECURSIVE RerollLoop(_, _, _, _, _)
RerollLoop(im, pairs, lo, hi, out) ==
  IF lo > hi THEN out
  ELSE IF lo = hi
       THEN IF im = "index" THEN ImmAccumulate(out, pairs[lo].key, pairs[lo].w, <<>>)
            ELSE MapSet(out, pairs[lo].key, pairs[lo].w)
  ELSE LET mid == (lo + hi) \div 2
           left == RerollLoop(im, pairs, lo, mid, out)
       IN Strict(left, RerollLoop(im, pairs, mid + 1, hi, left))

reroll(im, f, es) ==
  LET pairs == RerollPairs(f, es, 1)
  IN RerollLoop(im, pairs, 1, Len(pairs), <<>>)

(***************************************************************************)
(* get, set, normalize                                                     *)
(***************************************************************************)
Undefined == <<0, -1>>

\* get(outcome): this.sides.get(outcome)
get(es, k) ==
  LET i == FirstIdx([n \in 1..Len(es) |-> SameValueZero(es[n].key, k)])
  IN IF i = 0 THEN Undefined ELSE es[i].w

setByReference(es, k, w, h) ==
  Put(es, FirstIdx([n \in 1..Len(es) |-> SameValueZero(es[n].key, k)]), k, w)

\* set(outcome, probability): overwrite the first deepEqual record, else insert
set(es, k, w, h) == Put(es, FirstIdx([n \in 1..Len(es) |-> deepEqual(es[n].key, k, h)]), k, w)

\* index.ts normalize: a new Die over outcomes.map(p => p / sum)
normalizeIndex(es) == [i \in 1..Len(es) |-> Entry(es[i].key, RDiv(es[i].w, Total(es)))]

\* assert(probability): 0, NaN and undefined are falsy
Falsy(w) == w = Rat(0) \/ w = NaN \/ w = Undefined

\* dice.ts normalize: for each key, get, assert, set; part_000 normalize: for
\* each entry, set.  Both divide by the sum taken before the loop; a failed
\* assert leaves the records rescaled so far and ends the loop.
NormalizeBody(im, i, sumProbability, st, h) ==
  LET probability == IF im = "dice" THEN get(st.sides, st.sides[i].key) ELSE st.sides[i].w
  IN IF st.threw THEN st
     ELSE IF im = "dice" /\ Falsy(probability) THEN [st EXCEPT !.threw = TRUE]
     ELSE [st EXCEPT !.sides = set(st.sides, st.sides[i].key,
                                   RDiv(probability, sumProbability), h)]

RECURSIVE NormalizeLoop(_, _, _, _, _, _)
NormalizeLoop(im, lo, hi, sumProbability, st, h) ==
  IF lo > hi THEN st
  ELSE IF lo = hi THEN NormalizeBody(im, lo, sumProbability, st, h)
  ELSE LET mid == (lo + hi) \div 2
           left == NormalizeLoop(im, lo, mid, sumProbability, st, h)
       IN Strict(left, NormalizeLoop(im, mid + 1, hi, sumProbability, left, h))

normalize(im, es, h) ==
  NormalizeLoop(im, 1, Len(es), Total(es), [sides |-> es, threw |-> FALSE], h)

(***************************************************************************)
(* The store of Die objects                                                *)
(***************************************************************************)
\* new Die(...): the result is a new object, placed after the existing ones
NewDieReused(ds, sides) == [ds EXCEPT ![Len(ds)] = sides]

NewDie(ds, sides) == Append(ds, sides)

(***************************************************************************)
(* Actions                                                                 *)
(*                                                                         *)
(* A behaviour builds its dice by d, pair, pool, interpret and reroll, up  *)
(* to MaxDies objects, and then rescales dice in place (normalizations     *)
(* counts those calls); maps holds the objects that are bare Maps.         *)
(***************************************************************************)
Impls == {"index", "dice", "part", "main"}

\* the dice the caller starts with: uniform dice, and one built directly
\* with unnormalized weights (new Die(Map([[1, 2], [2, 1]])), an array literal)
Loaded == <<Entry(Num(1), Rat(2)), Entry(Num(2), Rat(1))>>

InitialDice == {d(MaxSides - 1), Loaded}

Init ==
  /\ impl \in Impls
  /\ heap = <<>>
  /\ \E x \in InitialDice : dies = <<d(MaxSides), x>>
  /\ maps = {}
  /\ mutations = 0
  /\ normalizations = 0
  /\ last = NoCall

\* weights whose exact value fits MaxTerm; a die with longer ones is left alone
Exact(es) == \A i \in 1..Len(es) : Abs(es[i].w[1]) <= MaxTerm /\ es[i].w[2] <= MaxTerm

\* a Die whose outcomes are numbers, as the callbacks here take them
Usable(i) == i \notin maps /\ AllNum(dies[i]) /\ Exact(dies[i])

\* d(numSides)
D ==
  /\ impl # "dice"
  /\ Len(dies) < MaxDies /\ normalizations = 0
  /\ \E n \in 1..MaxSides :
       /\ dies' = NewDie(dies, d(n))
       /\ last' = [NoCall EXCEPT !.op = "d", !.ret = Len(dies'), !.retType = "Die",
                                 !.out = d(n),
                                 !.preDies = dies, !.preHeap = heap]
  /\ UNCHANGED <<impl, heap, maps, mutations, normalizations>>

\* pair(combine, dieA, dieB)
Pair ==
  /\ impl \in {"index", "main"}
  /\ Len(dies) < MaxDies /\ normalizations = 0
  /\ \E cb \in CombineCallbacks, a \in 1..Len(dies), b \in 1..Len(dies) :
       /\ Usable(a) /\ Usable(b)
       /\ LET r == pair(impl, cb, dies[a], dies[b], heap)
          IN /\ heap' = r.heap
             /\ dies' = NewDie(dies, r.out)
             /\ last' = [NoCall EXCEPT !.op = "pair", !.cb = cb, !.args = <<a, b>>,
                            !.ret = Len(dies'), !.retType = "Die", !.out = r.out,
                            !.calls = r.calls, !.preDies = dies, !.preHeap = heap]
  /\ UNCHANGED <<impl, maps, mutations, normalizations>>

\* the callbacks a generation's pool can be given
PoolCallbacks(im) ==
  IF im = "index" THEN AccumulatorCallbacks ELSE AccumulatorCallbacks \ {"keepSorted"}

\* the dice arrays a caller builds: up to MaxPool of its dice, in the order
\* it obtained them
DiceSeqs ==
  {ids \in UNION {[1..k -> 1..Len(dies)] : k \in 0..MaxPool} :
     \A i \in 1..Len(ids) - 1 : ids[i] <= ids[i + 1]}

\* pool(accumulatorCallback, initial, dice) over dice of at most MaxSides outcomes
Pool ==
  /\ impl \in {"index", "part", "main"}
  /\ Len(dies) < MaxDies /\ normalizations = 0
  /\ \E cb \in PoolCallbacks(impl), ids \in DiceSeqs :
       /\ \A i \in 1..Len(ids) : Usable(ids[i]) /\ Len(dies[ids[i]]) <= MaxSides
       /\ LET ini == InitialFor(cb, heap)
              r == pool(impl, cb, ini.val, [i \in 1..Len(ids) |-> dies[ids[i]]], ini.heap)
          IN /\ heap' = r.heap
             /\ dies' = NewDie(dies, r.acc)
             /\ last' = [NoCall EXCEPT !.op = "pool", !.cb = cb, !.args = ids,
                            !.initial = ini.val, !.ret = Len(dies'), !.retType = "Die",
                            !.out = r.acc, !.calls = r.calls, !.accArgs = r.accArgs,
                            !.running = r.running, !.keysStable = r.keysStable,
                            !.preDies = dies, !.preHeap = ini.heap]
  /\ UNCHANGED <<impl, maps, mutations, normalizations>>

\* interpret(f, die)
Interpret ==
  /\ impl \in {"index", "part", "main"}
  /\ Len(dies) < MaxDies /\ normalizations = 0
  /\ \E f \in InterpretCallbacks, a \in 1..Len(dies) :
       /\ Usable(a)
       /\ LET r == interpret(impl, f, dies[a], heap)
          IN /\ heap' = r.heap
             /\ dies' = NewDie(dies, r.out)
             /\ last' = [NoCall EXCEPT !.op = "interpret", !.cb = f, !.args = <<a>>,
                            !.ret = Len(dies'), !.retType = "Die", !.out = r.out,
                            !.calls = r.calls, !.preDies = dies, !.preHeap = heap]
  /\ UNCHANGED <<impl, maps, mutations, normalizations>>

\* reroll(f, die); index.ts returns the bare Immutable Map: an object of its
\* own, but no Die, so it joins no further call
Reroll ==
  /\ impl \in {"index", "part"}
  /\ Len(dies) < MaxDies /\ normalizations = 0
  /\ \E f \in RerollCallbacks, a \in 1..Len(dies) :
       /\ Usable(a)
       /\ LET out == reroll(impl, f, dies[a])
          IN /\ dies' = NewDie(dies, out)
             /\ maps' = IF impl = "index" THEN maps \cup {Len(dies')} ELSE maps
             /\ last' = [NoCall EXCEPT !.op = "reroll", !.cb = f, !.args = <<a>>,
                            !.ret = Len(dies'),
                            !.retType = IF impl = "index" THEN "Map" ELSE "Die",
                            !.out = out, !.preDies = dies, !.preHeap = heap]
  /\ UNCHANGED <<impl, heap, mutations, normalizations>>

\* index.ts normalize(): returns new Die(...), this.outcomes is not assigned
NormalizeFresh ==
  /\ impl = "index"
  /\ Len(dies) < MaxDies /\ normalizations = 0
  /\ \E a \in 1..Len(dies) :
       /\ a \notin maps /\ Exact(dies[a])
       /\ dies' = NewDie(dies, normalizeIndex(dies[a]))
       /\ last' = [NoCall EXCEPT !.op = "normalize", !.args = <<a>>,
                      !.ret = Len(dies'), !.retType = "Die",
                      !.out = normalizeIndex(dies[a]), !.preDies = dies, !.preHeap = heap]
  /\ UNCHANGED <<impl, heap, maps, mutations, normalizations>>

\* dice.ts / part_000 normalize(): rewrites this.sides, returns nothing
NormalizeInPlace ==
  /\ impl \in {"dice", "part"}
  /\ normalizations < MaxNormalize
  /\ \E a \in 1..Len(dies) :
       /\ Exact(dies[a])
       /\ LET r == normalize(impl, dies[a], heap)
          IN /\ dies' = [dies EXCEPT ![a] = r.sides]
             /\ last' = [NoCall EXCEPT !.op = "normalize", !.args = <<a>>,
                            !.ret = 0, !.retType = "undefined", !.out = <<>>,
                            !.threw = r.threw, !.preDies = dies, !.preHeap = heap]
  /\ normalizations' = normalizations + 1
  /\ UNCHANGED <<impl, heap, maps, mutations>>

\* the outcomes a caller hands to set and accumulate: a number, a newly
\* built array [1, 2], or a key it already holds
FreshOutcomes == {<<1>>, <<2>>, <<1, 2>>}

\* set(outcome, probability) and accumulate(outcome, probability) of dice.ts
SetOrAccumulate ==
  /\ impl = "dice"
  /\ mutations < MaxMutations
  /\ \E op \in {"set", "accumulate"}, a \in 1..Len(dies), w \in {Rat(0), Rat(1)} :
       \/ \E c \in FreshOutcomes :
            LET k == IF Len(c) = 1 THEN [heap |-> heap, val |-> Num(c[1])]
                     ELSE Alloc("arr", c, heap)
                es == IF op = "set" THEN set(dies[a], k.val, w, k.heap)
                      ELSE accumulate(dies[a], k.val, w)
            IN /\ heap' = k.heap
               /\ dies' = [dies EXCEPT ![a] = es]
               /\ last' = [NoCall EXCEPT !.op = op, !.args = <<a>>, !.initial = k.val, !.weight = w,
                              !.retType = "undefined", !.preDies = dies, !.preHeap = heap]
       \/ \E j \in 1..Len(dies[a]) :
            LET k == dies[a][j].key
                es == IF op = "set" THEN set(dies[a], k, w, heap)
                      ELSE accumulate(dies[a], k, w)
            IN /\ heap' = heap
               /\ dies' = [dies EXCEPT ![a] = es]
               /\ last' = [NoCall EXCEPT !.op = op, !.args = <<a>>, !.initial = k, !.weight = w,
                              !.retType = "undefined", !.preDies = dies, !.preHeap = heap]
  /\ mutations' = mutations + 1
  /\ UNCHANGED <<impl, maps, normalizations>>

Next ==
  \/ D
  \/ Pair
  \/ Pool
  \/ Interpret
  \/ Reroll
  \/ NormalizeFresh
  \/ NormalizeInPlace
  \/ SetOrAccumulate

Spec == Init /\ [][Next]_vars

TypeOK == impl \in Impls

(***************************************************************************)
(* Calls on dice the caller built itself: new Die(new Map([...])) with any *)
(* weights, the factories with any integer argument, get, and the          *)
(* statistics helpers.                                                     *)
(***************************************************************************)
MaxBuilt == 3

BuiltOutcomes == 0..(MaxBuilt - 1)
BuiltWeights == {Rat(0), Rat(1), Rat(2)}

\* the Maps (arrays of RollResult for main.ts) a caller writes down: distinct
\* number outcomes in any order, each with a weight
BuiltDice ==
  {es \in UNION {[1..n -> [key : {Num(o) : o \in BuiltOutcomes}, w : BuiltWeights]]
                   : n \in 0..MaxBuilt} :
     \A i \in 1..Len(es), j \in 1..Len(es) : i # j => es[i].key # es[j].key}

InitCalls ==
  /\ impl \in Impls
  /\ heap = <<>>
  /\ \E x \in BuiltDice : dies = <<x>>
  /\ maps = {}
  /\ mutations = 0
  /\ normalizations = 0
  /\ last = NoCall

\* Array(numSides) throws RangeError for a negative length, and is [] for 0
ArrayThrows(length) == length < 0

\* Die.d(numSides) / d(dieSize) with any integer
DAny ==
  /\ impl # "dice"
  /\ Len(dies) < MaxDies
  /\ \E n \in -1..MaxSides :
       /\ dies' = IF ArrayThrows(n) THEN dies ELSE NewDie(dies, d(n))
       /\ last' = [NoCall EXCEPT !.op = "d", !.numSides = n,
                      !.threw = ArrayThrows(n),
                      !.ret = IF ArrayThrows(n) THEN 0 ELSE Len(dies'),
                      !.retType = IF ArrayThrows(n) THEN "none" ELSE "Die",
                      !.out = IF ArrayThrows(n) THEN <<>> ELSE d(n),
                      !.preDies = dies, !.preHeap = heap]
  /\ UNCHANGED <<impl, heap, maps, mutations, normalizations>>

\* the dice nd / d(dieSize, numDice) has made when it returns: index.ts maps a
\* lazy Range, which calls Die.d only when the result is iterated; part_000
\* and main.ts map an array at once, calling Die.d numDice times
NdCalls(im, numDice) == IF im = "index" THEN 0 ELSE numDice

\* Die.nd(numDice, numSides) / d(dieSize, numDice) with any integers
Nd ==
  /\ impl # "dice"
  /\ \E numDice \in 0..(MaxDies - Len(dies)), n \in -1..MaxSides :
       LET made == NdCalls(impl, numDice)
           fails == made > 0 /\ ArrayThrows(n)
           new == IF fails THEN <<>> ELSE [i \in 1..made |-> d(n)]
       IN /\ dies' = dies \o new
          /\ last' = [NoCall EXCEPT !.op = "nd", !.numSides = n, !.numDice = numDice,
                         !.threw = fails, !.calls = made,
                         !.retType = IF fails THEN "none"
                                     ELSE IF impl = "index" THEN "Seq" ELSE "Array",
                         !.out = IF made > 0 /\ ~fails THEN d(n) ELSE <<>>,
                         !.preDies = dies, !.preHeap = heap]
  /\ UNCHANGED <<impl, heap, maps, mutations, normalizations>>

\* stats normalize(die) for main.ts: a new array of copies, each divided by total
NormalizeStats ==
  /\ impl = "main"
  /\ Len(dies) < MaxDies
  /\ \E a \in 1..Len(dies) :
       /\ Exact(dies[a])
       /\ dies' = NewDie(dies, normalizeIndex(dies[a]))
       /\ last' = [NoCall EXCEPT !.op = "normalize", !.args = <<a>>,
                      !.ret = Len(dies'), !.retType = "Die",
                      !.out = normalizeIndex(dies[a]), !.preDies = dies, !.preHeap = heap]
  /\ UNCHANGED <<impl, heap, maps, mutations, normalizations>>

\* get(outcome) of dice.ts and part_001, with the outcomes of SetOrAccumulate;
\* an array built for the call is in last.preHeap and is dropped afterwards
Get ==
  /\ impl \in {"dice", "part"}
  /\ \E a \in 1..Len(dies) :
       \/ \E c \in FreshOutcomes :
            LET k == IF Len(c) = 1 THEN [heap |-> heap, val |-> Num(c[1])]
                     ELSE Alloc("arr", c, heap)
            IN /\ heap' = heap
               /\ last' = [NoCall EXCEPT !.op = "get", !.args = <<a>>, !.initial = k.val,
                              !.val = get(dies[a], k.val), !.retType = "number",
                              !.preDies = dies, !.preHeap = k.heap]
       \/ \E j \in 1..Len(dies[a]) :
            /\ heap' = heap
            /\ last' = [NoCall EXCEPT !.op = "get", !.args = <<a>>,
                           !.initial = dies[a][j].key,
                           !.val = get(dies[a], dies[a][j].key), !.retType = "number",
                           !.preDies = dies, !.preHeap = heap]
  /\ UNCHANGED <<impl, dies, maps, mutations, normalizations>>

(***************************************************************************)
(* stats: average and median (part_002 over index.ts, part_003 over        *)
(* main.ts)                                                                *)
(***************************************************************************)
\* the outcomes in ascending order
RECURSIVE SortedFrom(_, _)
SortedFrom(es, i) ==
  IF i > Len(es) THEN <<>> ELSE InsertSorted(SortedFrom(es, i + 1), es[i].key.v)

\* median(die): part_002 asserts both middle outcomes of an even count;
\* with no outcome at all part_002's assert(undefined) and part_003's
\* sorted[0].value both throw
median(im, es) ==
  LET sorted == SortedFrom(es, 1)
      middleIndex == Len(sorted) \div 2
  IN IF Len(sorted) % 2 = 1
     THEN [threw |-> FALSE, val |-> Rat(sorted[middleIndex + 1])]
     ELSE IF Len(sorted) = 0 THEN [threw |-> TRUE, val |-> Undefined]
     ELSE LET a == sorted[middleIndex + 1]
              b == sorted[middleIndex]
          IN IF im = "index" /\ (a = 0 \/ b = 0)
             THEN [threw |-> TRUE, val |-> Undefined]
             ELSE [threw |-> FALSE, val |-> RDiv(Rat(a + b), Rat(2))]

\* average(die): the sum of outcome * probability over the normalized die
average(es) ==
  LET normal == normalizeIndex(es)
  IN Total([i \in 1..Len(normal) |->
              Entry(normal[i].key, RMul(Rat(normal[i].key.v), normal[i].w))])

\* successPool of countSuccesses.ts: pool(countSuccess, 0, nd(12, 6))
SuccessPoolIndex ==
  pool("index", "countSuccessExample", Num(0),
       [i \in 1..ExampleDice |-> d(ExampleSides)], <<>>).acc

SuccessPoolMain ==
  pool("main", "countSuccessExample", Num(0),
       [i \in 1..ExampleDice |-> d(ExampleSides)], <<>>).acc

SuccessPool(im) == IF im = "index" THEN SuccessPoolIndex ELSE SuccessPoolMain

\* countSuccesses.ts line 13
CountSuccesses ==
  /\ impl \in {"index", "main"}
  /\ Len(dies) < MaxDies
  /\ \A i \in 1..Len(dies) : Len(dies[i]) <= ExampleDice
  /\ dies' = NewDie(dies, SuccessPool(impl))
  /\ last' = [NoCall EXCEPT !.op = "pool", !.cb = "countSuccessExample",
                 !.ret = Len(dies'), !.retType = "Die", !.out = dies'[Len(dies')],
                 !.preDies = dies, !.preHeap = heap]
  /\ UNCHANGED <<impl, heap, maps, mutations, normalizations>>

Median ==
  /\ impl \in {"index", "main"}
  /\ \E a \in 1..Len(dies) :
       LET r == median(impl, dies[a])
       IN last' = [NoCall EXCEPT !.op = "median", !.args = <<a>>, !.val = r.val,
                      !.threw = r.threw, !.retType = "number",
                      !.preDies = dies, !.preHeap = heap]
  /\ UNCHANGED <<impl, heap, dies, maps, mutations, normalizations>>

Average ==
  /\ impl \in {"index", "main"}
  /\ \E a \in 1..Len(dies) :
       /\ Exact(dies[a])
       /\ last' = [NoCall EXCEPT !.op = "average", !.args = <<a>>,
                      !.val = average(dies[a]), !.retType = "number",
                      !.preDies = dies, !.preHeap = heap]
  /\ UNCHANGED <<impl, heap, dies, maps, mutations, normalizations>>

NextCalls ==
  \/ DAny
  \/ Nd
  \/ NormalizeFresh
  \/ NormalizeInPlace
  \/ NormalizeStats
  \/ SetOrAccumulate
  \/ Get
  \/ CountSuccesses
  \/ Median
  \/ Average

SpecCalls == InitCalls /\ [][NextCalls]_vars

(***************************************************************************)
(* Properties                                                              *)
(***************************************************************************)
\* the dice the last call was given, as they were when it was made
Arg(i) == last.preDies[last.args[i]]

Args == [i \in 1..Len(last.args) |-> Arg(i)]

RECURSIVE SumOverSet(_, _)
SumOverSet(f, S) ==
  IF S = {} THEN Rat(0)
  ELSE LET x == CHOOSE y \in S : TRUE
       IN RAdd(f[x], SumOverSet(f, S \ {x}))

\* the sum of a weight-valued function over its whole domain
SumFn(f) == SumOverSet(f, DOMAIN f)

AbstractKeySet(es, h) == {Abstract(es[i].key, h) : i \in 1..Len(es)}

\* the records of es whose outcome is structurally x
RecordsOf(es, h, x) == {i \in 1..Len(es) : Abstract(es[i].key, h) = x}

NoDuplicates(es, h) == \A x \in AbstractKeySet(es, h) : Cardinality(RecordsOf(es, h, x)) = 1

\* es holds exactly the mapping f from structural outcomes to weights:
\* one record per outcome of f, with f's weight
Represents(es, h, f) ==
  /\ AbstractKeySet(es, h) = DOMAIN f
  /\ NoDuplicates(es, h)
  /\ \A i \in 1..Len(es) : es[i].w = f[Abstract(es[i].key, h)]

Normalized(es) == Total(es) = Rat(1)

\* C7: the total weight of pair(combine, A, B) is total(A) * total(B)
C7_PairTotal ==
  last.op = "pair" => Total(last.out) = RMul(Total(Arg(1)), Total(Arg(2)))

\* a pair whose combine merged several outcome pairs, over an unnormalized die
C7_Witness ==
  /\ last.op = "pair"
  /\ Len(last.out) < Len(Arg(1)) * Len(Arg(2))
  /\ Total(Arg(2)) = Rat(3)
  /\ Total(last.out) = Rat(3)

\* C8: pool over the empty sequence returns exactly {initial: 1} and never
\* calls the accumulator callback
C8_EmptyPool ==
  (last.op = "pool" /\ last.args = <<>>) =>
     /\ last.out = <<Entry(last.initial, Rat(1))>>
     /\ last.calls = 0
     /\ Content(last.initial, heap) = Content(last.initial, last.preHeap)

\* an empty pool with a composite initial value
C8_Witness ==
  /\ last.op = "pool" /\ last.args = <<>>
  /\ last.initial.kind = "arr"
  /\ Len(last.out) = 1

\* C1: no reachable distribution, and no running distribution of a pool,
\* holds two records with structurally equal outcomes
C1_NoStructuralDuplicates ==
  /\ \A i \in 1..Len(dies) : NoDuplicates(dies[i], heap)
  /\ NoDuplicates(last.out, heap)
  /\ \A r \in 1..Len(last.running) :
       \A i, j \in 1..Len(last.running[r]) :
          last.running[r][i] = last.running[r][j] => i = j

\* the joint assignments of one outcome (by position) to each die
Joint(dice) ==
  LET m == IF dice = <<>> THEN 0
           ELSE CHOOSE n \in {Len(dice[i]) : i \in 1..Len(dice)} :
                  \A i \in 1..Len(dice) : Len(dice[i]) <= n
  IN {asg \in [1..Len(dice) -> 1..m] : \A i \in 1..Len(dice) : asg[i] <= Len(dice[i])}

RECURSIVE FoldAssignment(_, _, _, _, _)
FoldAssignment(cb, acc, dice, asg, i) ==
  IF i > Len(dice) THEN acc
  ELSE FoldAssignment(cb, AccPure(cb, acc, dice[i][asg[i]].key.v), dice, asg, i + 1)

RECURSIVE WeightOfAssignment(_, _, _)
WeightOfAssignment(dice, asg, i) ==
  IF i > Len(dice) THEN Rat(1)
  ELSE RMul(dice[i][asg[i]].w, WeightOfAssignment(dice, asg, i + 1))

\* the reference distribution of pool: enumerate, fold left to right, weight
\* by the product, sum the weights of structurally equal results
Reference(cb, initial, dice) ==
  LET res(asg) == <<AccKind(cb), FoldAssignment(cb, initial, dice, asg, 1)>>
      results == {res(asg) : asg \in Joint(dice)}
  IN [x \in results |->
        SumFn([asg \in {b \in Joint(dice) : res(b) = x} |-> WeightOfAssignment(dice, asg, 1)])]

\* C2: pool returns the reference distribution
C2_PoolIsReference ==
  last.op = "pool" =>
     Represents(last.out, heap,
                Reference(last.cb, Content(last.initial, last.preHeap), Args))

\* C3: an accumulator callback that mutates its argument in place is given
\* a value of its own at every call, and leaves the caller's initial value
\* and the keys of the running distribution as they were
C3_OwnedAccumulator ==
  (last.op = "pool" /\ InPlace(last.cb)) =>
     /\ \A i \in 1..Len(last.accArgs) : last.accArgs[i] # last.initial
     /\ \A i, j \in 1..Len(last.accArgs) : last.accArgs[i] = last.accArgs[j] => i = j
     /\ last.keysStable
     /\ Content(last.initial, heap) = Content(last.initial, last.preHeap)

\* what interpret(f, die) should hold: each image with the summed weight of
\* the outcomes mapped to it
InterpretReference(im, f, es) ==
  LET img(i) == <<InterpretKind(im, f), InterpretPure(f, es[i].key.v)>>
  IN [x \in {img(i) : i \in 1..Len(es)} |->
        SumFn([i \in {j \in 1..Len(es) : img(j) = x} |-> es[i].w])]

\* C4: interpret sums the weights of outcomes with structurally equal images,
\* and so preserves the total weight
C4_InterpretMerges ==
  last.op = "interpret" =>
     /\ Represents(last.out, heap, InterpretReference(impl, last.cb, Arg(1)))
     /\ Total(last.out) = Total(Arg(1))

\* the weight f(o) gives to the new outcome x
BranchWeight(f, o, x) ==
  LET sub == RerollDie(f, o)
  IN SumFn([j \in {k \in 1..Len(sub) : sub[k].key = x} |-> sub[j].w])

RerollReference(f, es) ==
  LET news == UNION {{RerollDie(f, es[i].key.v)[j].key :
                        j \in 1..Len(RerollDie(f, es[i].key.v))} : i \in 1..Len(es)}
  IN [x \in {Abstract(k, <<>>) : k \in news} |->
        SumFn([i \in 1..Len(es) |-> RMul(es[i].w, BranchWeight(f, es[i].key.v, Num(x[2][1])))])]

\* C5: reroll gives each new outcome the sum over the original outcomes o of
\* weight(o) * f(o).weight(new outcome); normalized inputs give a normalized result
C5_RerollWeights ==
  last.op = "reroll" =>
     /\ Represents(last.out, heap, RerollReference(last.cb, Arg(1)))
     /\ (/\ Normalized(Arg(1))
         /\ \A i \in 1..Len(Arg(1)) : Normalized(RerollDie(last.cb, Arg(1)[i].key.v)))
        => Normalized(last.out)

\* two distributions hold the same mapping from structural outcomes to weights
SameMapping(es1, h1, es2, h2) ==
  /\ AbstractKeySet(es1, h1) = AbstractKeySet(es2, h2)
  /\ \A x \in AbstractKeySet(es1, h1) :
       SumFn([i \in RecordsOf(es1, h1, x) |-> es1[i].w])
         = SumFn([i \in RecordsOf(es2, h2, x) |-> es2[i].w])
  /\ NoDuplicates(es1, h1) /\ NoDuplicates(es2, h2)

\* the distribution interpret gives for outcome => accumulate(initial, outcome)
InterpretOfAccumulate == interpret(impl, last.cb, Arg(1), last.preHeap)

\* C6: pool over one die is interpret(outcome => accumulate(initial, outcome), die)
C6_SinglePoolIsInterpret ==
  (last.op = "pool" /\ Len(last.args) = 1 /\ ~InPlace(last.cb)) =>
     SameMapping(last.out, heap, InterpretOfAccumulate.out, InterpretOfAccumulate.heap)

\* C9: normalize rescales the die it is called on and returns that die
C9_NormalizeInPlace ==
  (last.op = "normalize" /\ ~last.threw) =>
     /\ last.ret = last.args[1]
     /\ Len(dies[last.args[1]]) = Len(Arg(1))
     /\ \A i \in 1..Len(Arg(1)) :
          dies[last.args[1]][i] = Entry(Arg(1)[i].key, RDiv(Arg(1)[i].w, Total(Arg(1))))

CombinationOps == {"pair", "pool", "interpret", "reroll"}

HasBadWeight(es) == \E i \in 1..Len(es) : ~IsFinite(es[i].w)

\* no record, or every weight 0
ZeroTotal(es) == \A i \in 1..Len(es) : es[i].w = Rat(0)

\* C11: normalize of a distribution that is empty or has only zero weights
\* throws, and neither its result nor any die holds a NaN or Infinity weight
C11_ZeroTotalFails ==
  (last.op = "normalize" /\ ZeroTotal(Arg(1))) =>
     /\ last.threw
     /\ ~HasBadWeight(last.out)
     /\ \A i \in 1..Len(dies) : ~HasBadWeight(dies[i])

\* C12: d and nd called with numSides <= 0 throw at the call
C12_RejectNonPositive ==
  (last.op \in {"d", "nd"} /\ last.numSides <= 0) => last.threw

\* the first record of es structurally equal to k, 0 if there is none: the
\* record set(k, w) writes
StructuralIdx(es, k, h) == FirstIdx([n \in 1..Len(es) |-> deepEqual(es[n].key, k, h)])

\* C13: get(o2) returns the weight of the record structurally equal to o2,
\* the one set(o, w) wrote for any o structurally equal to o2, and undefined
\* exactly when there is no such record
C13_GetIsStructural ==
  last.op = "get" =>
     LET i == StructuralIdx(Arg(1), last.initial, last.preHeap)
     IN last.val = IF i = 0 THEN Undefined ELSE Arg(1)[i].w

\* C14: for the pool counting 5-or-higher over 12d6, median returns 4, as
\* average does
C14_MedianOfSuccesses ==
  (last.op = "median" /\ Len(Arg(1)) = ExampleDice + 1 /\ Arg(1) = SuccessPool(impl)) =>
     /\ ~last.threw
     /\ last.val = Rat(4)
     /\ average(Arg(1)) = Rat(4)

\* the distribution a normalize call produced: the Die it returned (index.ts,
\* stats normalize) or the die it was called on (dice.ts, part_000)
NormalizeResult == IF last.ret # 0 THEN last.out ELSE dies[last.args[1]]

NonNegative(w) == w[2] > 0 /\ w[1] >= 0

\* C15: normalize of number outcomes with weights >= 0 and a total > 0 does
\* not throw, and gives every outcome its old weight / old total, summing to 1
C15_NormalizeRescales ==
  (/\ last.op = "normalize"
   /\ AllNum(Arg(1))
   /\ \A i \in 1..Len(Arg(1)) : NonNegative(Arg(1)[i].w)
   /\ Total(Arg(1)) # Rat(0)) =>
     /\ ~last.threw
     /\ Len(NormalizeResult) = Len(Arg(1))
     /\ \A i \in 1..Len(Arg(1)) :
          NormalizeResult[i] = Entry(Arg(1)[i].key, RDiv(Arg(1)[i].w, Total(Arg(1))))
     /\ Total(NormalizeResult) = Rat(1)

Ranked(S, r) == CHOOSE x \in S : Cardinality({y \in S : y < x}) = r - 1

\* C17: median of a non-empty distribution of numbers returns the middle
\* outcome of the sorted outcomes for an odd count and the mean of the two
\* middle ones for an even count, whatever the outcomes are, 0 included
C17_MedianMiddle ==
  (last.op = "median" /\ Arg(1) # <<>> /\ AllNum(Arg(1))) =>
     LET S == {Arg(1)[i].key.v : i \in 1..Len(Arg(1))}
         n == Cardinality(S)
     IN /\ ~last.threw
        /\ last.val = IF n % 2 = 1 THEN Rat(Ranked(S, (n + 1) \div 2))
                      ELSE RDiv(Rat(Ranked(S, n \div 2) + Ranked(S, n \div 2 + 1)), Rat(2))
====
